---- MODULE Spec2Model ----
(***************************************************************************)
(* A model of wifi_monitor.py: one command-line invocation of the tool,   *)
(* from argument dispatch in main() to the end of the process.            *)
(*                                                                         *)
(* Python strings are sequences of one-character strings, so that lower(), *)
(* startswith() and the substring test `in` are computed, not assumed.     *)
(* A Python value that may be None, a str or a list of str is a record     *)
(* [kind, s, l].  The counter source (psutil) and the command runner       *)
(* (subprocess) are the environment: the interface set may change between  *)
(* two calls, counters and exit codes are chosen by the environment.       *)
(***************************************************************************)
EXTENDS Integers, Sequences, FiniteSets, TLC

(* ------------------------------ bounds -------------------------------- *)
\* number of names of NamePool the counter source may enumerate
MaxIfaces == 2
\* largest exit code a command returns (0 is success)
MaxRc == 1
\* number of loop iterations of monitor_interface that are explored
MaxIter == 2

(* ------------------------------ strings ------------------------------- *)
UpperChars == <<"A","B","C","D","E","F","G","H","I","J","K","L","M",
                "N","O","P","Q","R","S","T","U","V","W","X","Y","Z">>
LowerChars == <<"a","b","c","d","e","f","g","h","i","j","k","l","m",
                "n","o","p","q","r","s","t","u","v","w","x","y","z">>

\* str.lower() on one character
LowerChar(c) ==
    IF \E i \in 1..Len(UpperChars) : UpperChars[i] = c
    THEN LowerChars[CHOOSE i \in 1..Len(UpperChars) : UpperChars[i] = c]
    ELSE c

\* str.lower()
Lower(s) == [i \in 1..Len(s) |-> LowerChar(s[i])]

\* str.startswith(p)
StartsWith(s, p) == Len(p) <= Len(s) /\ SubSeq(s, 1, Len(p)) = p

\* `p in s` for two strings
Contains(s, p) ==
    \E i \in 0..(Len(s) - Len(p)) : SubSeq(s, i + 1, i + Len(p)) = p

s_wlan0 == <<"w","l","a","n","0">>
s_eth0  == <<"e","t","h","0">>
s_WiFi  == <<"W","i","-","F","i">>
s_lo    == <<"l","o">>
s_en0   == <<"e","n","0">>
s_en1   == <<"e","n","1">>
s_empty == <<>>

(* --------------------------- Python values ---------------------------- *)
None    == [kind |-> "none", s |-> <<>>, l |-> <<>>]
Str(s)  == [kind |-> "str",  s |-> s,    l |-> <<>>]
List(l) == [kind |-> "list", s |-> <<>>, l |-> l]

\* truth value of None, a str or a list
Truthy(v) ==
    CASE v.kind = "none" -> FALSE
      [] v.kind = "str"  -> v.s # <<>>
      [] v.kind = "list" -> v.l # <<>>

(* ------------------------- interface classifier ------------------------ *)
\* IsWifiLike without the lower() of line 41: the patterns are matched
\* case-sensitively
IsWifiLikeCaseSensitive(n) ==
    \/ StartsWith(n, <<"w","l">>)
    \/ StartsWith(n, <<"w","l","a","n">>)
    \/ n \in {s_en0, s_en1}
    \/ Contains(n, <<"w","i","-","f","i">>)
    \/ Contains(n, <<"w","i","f","i">>)

\* the test of one name in detect_wifi_like_interfaces
IsWifiLike(n) ==
    LET ln == Lower(n) IN
       \/ StartsWith(ln, <<"w","l">>)
       \/ StartsWith(ln, <<"w","l","a","n">>)
       \/ ln \in {s_en0, s_en1}
       \/ Contains(ln, <<"w","i","-","f","i">>)
       \/ Contains(ln, <<"w","i","f","i">>)

\* DetectWifiLike without the fallback to all names of line 44
DetectWifiLikeNoFallback(names) == SelectSeq(names, IsWifiLike)

\* detect_wifi_like_interfaces on the names list_interfaces() returned
DetectWifiLike(names) ==
    LET candidates == SelectSeq(names, IsWifiLike) IN
    IF candidates # <<>> THEN candidates ELSE names

(* ------------------------------ inputs -------------------------------- *)
\* names the counter source may enumerate, the first MaxIfaces of them are used
NamePool == <<s_wlan0, s_eth0, s_lo, s_WiFi>>

PoolNames == {NamePool[i] : i \in 1..MaxIfaces}

\* the key lists psutil.net_io_counters(pernic=True) may have: no name twice
NicLists ==
    UNION {{q \in [1..n -> PoolNames] : \A i, j \in 1..n : q[i] = q[j] => i = j}
           : n \in 0..MaxIfaces}

\* values of platform.system()
p_Linux   == <<"L","i","n","u","x">>
p_Windows == <<"W","i","n","d","o","w","s">>
p_Darwin  == <<"D","a","r","w","i","n">>
p_FreeBSD == <<"F","r","e","e","B","S","D">>
Platforms == {p_Linux, p_Windows, p_Darwin, p_FreeBSD}

\* --iface: absent, the empty string, or a name
IfaceArgs == {None, Str(s_empty), Str(s_wlan0)}

\* exit codes of an external command
ExitCodes == 0..MaxRc

\* --interval (argparse type=float, not validated)
Intervals == {0, 1, 2}

\* cumulative byte counters the counter source may report
RxValues == {1000, 1500}
TxValues == {500, 800}

VARIABLES
    sub,        \* args.cmd: the subcommand
    args,       \* the parsed arguments of the subcommand
    system,     \* platform.system()
    nics,       \* keys of psutil.net_io_counters(pernic=True), now
    pc,         \* position in the program
    iface,      \* local variable iface of wifi_power / do_monitor
    idx,        \* position in cmds of the monitor-mode loop
    prev,       \* (prev_rx, prev_tx) of monitor_interface
    cur,        \* (cur_rx, cur_tx) of monitor_interface
    stdout,     \* lines printed on standard output
    stderr,     \* lines printed on standard error
    exitStatus, \* -1 while running, else the exit status of the process
    fault,      \* the exception that ended the process unhandled, or "none"
    ran,        \* history: the commands passed to run_cmd with their exit codes
    enums,      \* history: what each list_interfaces() call returned
    reads,      \* history: the snapshots get_iface_counters returned
    records,    \* history: the records the sampling loop emitted
    hb          \* history: the argument and the result of a call of human_bytes

vars == <<sub, args, system, nics, pc, iface, idx, prev, cur, stdout, stderr,
          exitStatus, fault, ran, enums, reads, records, hb>>

(* --------------------------- initial state ---------------------------- *)
\* what parser.parse_args() can return for each subcommand
ArgSets ==
    [ifaces |-> {[iface |-> None, state |-> "-", action |-> "-", interval |-> 1]},
     monitor |-> [iface : IfaceArgs, state : {"-"}, action : {"-"},
                  interval : Intervals],
     wifi |-> [iface : IfaceArgs, state : {"on", "off"}, action : {"-"},
               interval : {1}],
     monmode |-> [iface : {Str(s_wlan0)}, state : {"-"},
                  action : {"enable", "disable"}, interval : {1}]]

Subcommands == {"ifaces", "monitor", "wifi", "monmode"}

Init ==
    /\ sub \in Subcommands
    /\ args \in ArgSets[sub]
    /\ system \in Platforms
    /\ nics \in NicLists
    /\ pc = "main"
    /\ iface = None
    /\ idx = 0
    /\ prev = <<0, 0>>
    /\ cur = <<0, 0>>
    /\ stdout = <<>>
    /\ stderr = <<>>
    /\ exitStatus = -1
    /\ fault = "none"
    /\ ran = <<>>
    /\ enums = <<>>
    /\ reads = <<>>
    /\ records = <<>>
    /\ hb = "-"

(* ----------------------------- primitives ----------------------------- *)
\* a command line handed to run_cmd: the program, the name formatted into
\* it (a Python value, formatted by the f-string) and the last word
Cmd(prog, target, arg) == [prog |-> prog, target |-> target, arg |-> arg]

\* run_cmd(c) returning exit code rc
RunCmd(c, rc) == ran' = Append(ran, [cmd |-> c, rc |-> rc])

\* list_interfaces(): the keys of the counter source, now
ListInterfaces == enums' = Append(enums, nics)

\* sys.exit(code) after print(msg, file=sys.stderr)
FailStderr(msg, code) ==
    /\ stderr' = Append(stderr, msg)
    /\ exitStatus' = code
    /\ pc' = "done"

\* the function of the subcommand returns: main() ends, exit status 0
ReturnOk ==
    /\ exitStatus' = 0
    /\ pc' = "done"

\* an exception nothing catches: traceback, exit status 1
Unhandled(exc) ==
    /\ fault' = exc
    /\ exitStatus' = 1
    /\ pc' = "done"

\* osname = platform.system().lower()
osname == Lower(system)

IsLinux == Contains(osname, <<"l","i","n","u","x">>)
IsWindows == Contains(osname, <<"w","i","n","d","o","w","s">>)
IsDarwin == \/ Contains(osname, <<"d","a","r","w","i","n">>)
            \/ Contains(osname, <<"m","a","c">>)

(* ------------------------------ wifi_power ---------------------------- *)
\* the check of state at the top of wifi_power (argparse admits on and off)
StateValid(state) == state \in {"on", "off"}

\* WifiLinuxPrimary without the return of line 96: success of the primary
\* command falls through to the fallback
WifiLinuxPrimaryNoReturn ==
    /\ pc = "main" /\ sub = "wifi" /\ StateValid(args.state) /\ IsLinux
    /\ \E rc \in ExitCodes :
        /\ RunCmd(Cmd("nmcli radio wifi", None, args.state), rc)
        /\ stdout' = IF rc = 0 THEN Append(stdout, "Wi-Fi state") ELSE stdout
        /\ pc' = "wifi_resolve"
        /\ UNCHANGED exitStatus
    /\ UNCHANGED <<hb, sub, args, system, nics, iface, idx, prev, cur, stderr,
                   fault, enums, reads, records>>

\* lines 91-96: the primary command of the Linux branch
WifiLinuxPrimary ==
    /\ pc = "main" /\ sub = "wifi" /\ StateValid(args.state) /\ IsLinux
    /\ \E rc \in ExitCodes :
        /\ RunCmd(Cmd("nmcli radio wifi", None, args.state), rc)
        /\ IF rc = 0
           THEN /\ stdout' = Append(stdout, "Wi-Fi state")
                /\ ReturnOk
           ELSE /\ pc' = "wifi_resolve"
                /\ UNCHANGED <<stdout, exitStatus>>
    /\ UNCHANGED <<hb, sub, args, system, nics, iface, idx, prev, cur, stderr,
                   fault, enums, reads, records>>

\* line 98: iface_hint or (detect() if detect() else None), up to the
\* first call of detect_wifi_like_interfaces
WifiResolve ==
    /\ pc = "wifi_resolve"
    /\ IF Truthy(args.iface)
       THEN /\ iface' = args.iface
            /\ pc' = "wifi_fallback"
            /\ UNCHANGED enums
       ELSE /\ ListInterfaces
            /\ IF DetectWifiLike(nics) # <<>>
               THEN /\ pc' = "wifi_resolve2"
                    /\ UNCHANGED iface
               ELSE /\ iface' = None
                    /\ pc' = "wifi_fallback"
    /\ UNCHANGED <<hb, sub, args, system, nics, idx, prev, cur, stdout, stderr,
                   exitStatus, fault, ran, reads, records>>

\* line 98: the second call of detect_wifi_like_interfaces, whose result
\* (the list) is the value of the expression
WifiResolve2 ==
    /\ pc = "wifi_resolve2"
    /\ ListInterfaces
    /\ iface' = List(DetectWifiLike(nics))
    /\ pc' = "wifi_fallback"
    /\ UNCHANGED <<hb, sub, args, system, nics, idx, prev, cur, stdout, stderr,
                   exitStatus, fault, ran, reads, records>>

\* WifiLinuxFallback testing `iface is None` instead of `not iface`: an
\* empty list of interfaces passes
WifiLinuxFallbackIsNone ==
    /\ pc = "wifi_fallback"
    /\ IF iface.kind = "none"
       THEN /\ FailStderr("Could not determine Wi-Fi interface", 3)
            /\ UNCHANGED <<stdout, ran>>
       ELSE \E rc \in ExitCodes :
            /\ RunCmd(Cmd("sudo ip link set", iface,
                          IF args.state = "on" THEN "up" ELSE "down"), rc)
            /\ IF rc # 0
               THEN /\ stdout' = Append(stdout, "nmcli failed, falling back")
                    /\ FailStderr("Failed to toggle Wi-Fi", 4)
               ELSE /\ stdout' = stdout \o <<"nmcli failed, falling back",
                                              "Interface up/down">>
                    /\ ReturnOk
                    /\ UNCHANGED stderr
    /\ UNCHANGED <<hb, sub, args, system, nics, iface, idx, prev, cur, fault,
                   enums, reads, records>>

\* lines 99-108: the fallback link-state command
WifiLinuxFallback ==
    /\ pc = "wifi_fallback"
    /\ IF ~Truthy(iface)
       THEN /\ FailStderr("Could not determine Wi-Fi interface", 3)
            /\ UNCHANGED <<stdout, ran>>
       ELSE \E rc \in ExitCodes :
            /\ RunCmd(Cmd("sudo ip link set", iface,
                          IF args.state = "on" THEN "up" ELSE "down"), rc)
            /\ IF rc # 0
               THEN /\ stdout' = Append(stdout, "nmcli failed, falling back")
                    /\ FailStderr("Failed to toggle Wi-Fi", 4)
               ELSE /\ stdout' = stdout \o <<"nmcli failed, falling back",
                                              "Interface up/down">>
                    /\ ReturnOk
                    /\ UNCHANGED stderr
    /\ UNCHANGED <<hb, sub, args, system, nics, iface, idx, prev, cur, fault,
                   enums, reads, records>>

\* WifiWindows ignoring the hint: the interface is always "Wi-Fi"
WifiWindowsIgnoresHint ==
    /\ pc = "main" /\ sub = "wifi" /\ StateValid(args.state)
    /\ ~IsLinux /\ IsWindows
    /\ iface' = Str(s_WiFi)
    /\ \E rc \in ExitCodes :
        /\ RunCmd(Cmd("netsh interface set interface admin=", iface',
                      IF args.state = "on" THEN "enable" ELSE "disable"), rc)
        /\ IF rc # 0
           THEN /\ stdout' = Append(stdout, "Failed to toggle Wi-Fi")
                /\ exitStatus' = 5
                /\ pc' = "done"
           ELSE /\ stdout' = Append(stdout, "Wi-Fi state")
                /\ ReturnOk
    /\ UNCHANGED <<hb, sub, args, system, nics, idx, prev, cur, stderr, fault,
                   enums, reads, records>>

\* lines 110-118: the Windows branch
WifiWindows ==
    /\ pc = "main" /\ sub = "wifi" /\ StateValid(args.state)
    /\ ~IsLinux /\ IsWindows
    /\ iface' = IF Truthy(args.iface) THEN args.iface
                ELSE Str(s_WiFi)
    /\ \E rc \in ExitCodes :
        /\ RunCmd(Cmd("netsh interface set interface admin=", iface',
                      IF args.state = "on" THEN "enable" ELSE "disable"), rc)
        /\ IF rc # 0
           THEN /\ stdout' = Append(stdout, "Failed to toggle Wi-Fi")
                /\ exitStatus' = 5
                /\ pc' = "done"
           ELSE /\ stdout' = Append(stdout, "Wi-Fi state")
                /\ ReturnOk
    /\ UNCHANGED <<hb, sub, args, system, nics, idx, prev, cur, stderr, fault,
                   enums, reads, records>>

\* WifiDarwin exiting with the status of the Windows branch
WifiDarwinExit5 ==
    /\ pc = "main" /\ sub = "wifi" /\ StateValid(args.state)
    /\ ~IsLinux /\ ~IsWindows /\ IsDarwin
    /\ iface' = IF Truthy(args.iface) THEN args.iface
                ELSE Str(s_en0)
    /\ \E rc \in ExitCodes :
        /\ RunCmd(Cmd("networksetup -setairportpower", iface',
                      IF args.state = "on" THEN "on" ELSE "off"), rc)
        /\ IF rc # 0
           THEN /\ FailStderr("Failed to toggle Wi-Fi", 5)
                /\ UNCHANGED stdout
           ELSE /\ stdout' = Append(stdout, "Wi-Fi state on iface")
                /\ ReturnOk
                /\ UNCHANGED stderr
    /\ UNCHANGED <<hb, sub, args, system, nics, idx, prev, cur, fault,
                   enums, reads, records>>

\* lines 120-128: the macOS branch
WifiDarwin ==
    /\ pc = "main" /\ sub = "wifi" /\ StateValid(args.state)
    /\ ~IsLinux /\ ~IsWindows /\ IsDarwin
    /\ iface' = IF Truthy(args.iface) THEN args.iface
                ELSE Str(s_en0)
    /\ \E rc \in ExitCodes :
        /\ RunCmd(Cmd("networksetup -setairportpower", iface',
                      IF args.state = "on" THEN "on" ELSE "off"), rc)
        /\ IF rc # 0
           THEN /\ FailStderr("Failed to toggle Wi-Fi", 6)
                /\ UNCHANGED stdout
           ELSE /\ stdout' = Append(stdout, "Wi-Fi state on iface")
                /\ ReturnOk
                /\ UNCHANGED stderr
    /\ UNCHANGED <<hb, sub, args, system, nics, idx, prev, cur, fault,
                   enums, reads, records>>

\* lines 129-131: any other platform
WifiUnsupported ==
    /\ pc = "main" /\ sub = "wifi" /\ StateValid(args.state)
    /\ ~IsLinux /\ ~IsWindows /\ ~IsDarwin
    /\ FailStderr("Unsupported OS", 7)
    /\ UNCHANGED <<hb, sub, args, system, nics, iface, idx, prev, cur, stdout,
                   fault, ran, enums, reads, records>>

(* ------------------------ monitor-mode controller --------------------- *)
\* MonitorModeCmds bringing the interface up first and down last
MonitorModeCmdsUpFirst(name, type) ==
    <<Cmd("sudo ip link set", name, "up"),
      Cmd("sudo iw dev set type", name, type),
      Cmd("sudo ip link set", name, "down")>>

\* cmds of linux_monitor_mode_enable / linux_monitor_mode_disable for the
\* driver type given
MonitorModeCmds(name, type) ==
    <<Cmd("sudo ip link set", name, "down"),
      Cmd("sudo iw dev set type", name, type),
      Cmd("sudo ip link set", name, "up")>>

\* MonitorModeStep without the sys.exit of the failure branch: the loop
\* goes on to the next command
MonitorModeStepNoExit(cmds, code, okmsg) ==
    /\ idx < Len(cmds)
    /\ \E rc \in ExitCodes :
        /\ RunCmd(cmds[idx + 1], rc)
        /\ idx' = idx + 1
        /\ stderr' = IF rc # 0 THEN Append(stderr, "Failed: c") ELSE stderr
        /\ IF idx + 1 = Len(cmds)
           THEN /\ stdout' = Append(stdout, okmsg)
                /\ ReturnOk
           ELSE UNCHANGED <<stdout, exitStatus, pc>>
    /\ UNCHANGED <<hb, sub, args, system, nics, iface, prev, cur, fault, enums,
                   reads, records>>

\* one turn of `for c in cmds`: run cmds[idx + 1]; a non-zero exit code
\* prints to stderr and exits with code; the print after the loop follows
\* the last command
MonitorModeStep(cmds, code, okmsg) ==
    /\ idx < Len(cmds)
    /\ \E rc \in ExitCodes :
        /\ RunCmd(cmds[idx + 1], rc)
        /\ IF rc # 0
           THEN /\ FailStderr("Failed: c", code)
                /\ UNCHANGED <<idx, stdout>>
           ELSE /\ idx' = idx + 1
                /\ IF idx + 1 = Len(cmds)
                   THEN /\ stdout' = Append(stdout, okmsg)
                        /\ ReturnOk
                   ELSE UNCHANGED <<stdout, exitStatus, pc>>
                /\ UNCHANGED stderr
    /\ UNCHANGED <<hb, sub, args, system, nics, iface, prev, cur, fault, enums,
                   reads, records>>

\* do_monmode, lines 190-192: not Linux
MonmodeNotLinux ==
    /\ pc = "main" /\ sub = "monmode"
    /\ osname # <<"l","i","n","u","x">>
    /\ FailStderr("Monitor mode helper is Linux-only.", 11)
    /\ UNCHANGED <<hb, sub, args, system, nics, iface, idx, prev, cur, stdout,
                   fault, ran, enums, reads, records>>

\* MonmodeDispatch without the platform test of line 190
MonmodeDispatchAnyPlatform ==
    /\ pc = "main" /\ sub = "monmode"
    /\ pc' = IF args.action = "enable" THEN "mm_enable" ELSE "mm_disable"
    /\ UNCHANGED <<hb, sub, args, system, nics, iface, idx, prev, cur, stdout,
                   stderr, exitStatus, fault, ran, enums, reads, records>>

\* do_monmode, lines 193-196: the call of the enable or disable function
MonmodeDispatch ==
    /\ pc = "main" /\ sub = "monmode"
    /\ osname = <<"l","i","n","u","x">>
    /\ pc' = IF args.action = "enable" THEN "mm_enable" ELSE "mm_disable"
    /\ UNCHANGED <<hb, sub, args, system, nics, iface, idx, prev, cur, stdout,
                   stderr, exitStatus, fault, ran, enums, reads, records>>

linux_monitor_mode_enable ==
    /\ pc = "mm_enable"
    /\ MonitorModeStep(MonitorModeCmds(args.iface, "monitor"), 8,
                       "Monitor mode requested")

linux_monitor_mode_disable ==
    /\ pc = "mm_disable"
    /\ MonitorModeStep(MonitorModeCmds(args.iface, "managed"), 9,
                       "Managed mode restored")

(* -------------------------------- ifaces ------------------------------ *)
\* the ifaces subcommand: print("\n".join(list_interfaces()))
Ifaces ==
    /\ pc = "main" /\ sub = "ifaces"
    /\ ListInterfaces
    /\ stdout' = Append(stdout, "interface names")
    /\ ReturnOk
    /\ UNCHANGED <<hb, sub, args, system, nics, iface, idx, prev, cur, stderr,
                   fault, ran, reads, records>>

(* ---------------------------- unit formatter -------------------------- *)
RECURSIVE Gcd(_, _)
Gcd(a, b) == IF b = 0 THEN a ELSE Gcd(b, a % b)

Abs(a) == IF a < 0 THEN -a ELSE a

\* the fraction n / d, d > 0, in lowest terms
Frac(n, d) ==
    LET g == Gcd(Abs(n), d) IN [n |-> n \div g, d |-> d \div g]

\* A float is [n, d, e] and stands for (n / d) * 1024^e, with n / d in
\* lowest terms and 1 <= |n / d| < 1024, or n = 0 with d = 1 and e = 0.
\* For the values explored (integers and halves of integers below 2^53 and
\* their quotients by powers of 1024) every float operation of the program is
\* exact, so the triple is the float's value.
RECURSIVE Normalize(_, _, _)
Normalize(n, d, e) ==
    IF n = 0 THEN [n |-> 0, d |-> 1, e |-> 0]
    ELSE IF Abs(n) >= 1024 * d
         THEN LET f == Frac(n, d * 1024) IN Normalize(f.n, f.d, e + 1)
    ELSE IF Abs(n) < d
         THEN LET f == Frac(n * 1024, d) IN Normalize(f.n, f.d, e - 1)
    ELSE [n |-> n, d |-> d, e |-> e]

\* float(x) for x = (n / d) * 1024^e
Float(n, d, e) == LET f == Frac(n, d) IN Normalize(f.n, f.d, e)

sizes == <<"B", "KB", "MB", "GB", "TB">>

\* the loop test with > in place of >=
AtLeast1024Strict(f) == f.n > 0 /\ (f.e >= 2 \/ (f.e = 1 /\ f.n > f.d))

\* line 20: f >= 1024
AtLeast1024(f) == f.n > 0 /\ f.e >= 1

\* line 21: f /= 1024
DivideBy1024(f) == [f EXCEPT !.e = @ - 1]

\* the while loop of human_bytes, from value f and index i (0-based)
RECURSIVE HumanScale(_, _)
HumanScale(f, i) ==
    IF AtLeast1024(f) /\ i < Len(sizes) - 1
    THEN HumanScale(DivideBy1024(f), i + 1)
    ELSE [f |-> f, i |-> i]

RECURSIVE Pow1024(_)
Pow1024(k) == IF k = 0 THEN 1 ELSE 1024 * Pow1024(k - 1)

\* round(a / b) to the nearest integer, ties to even, b > 0
RoundHalfEven(a, b) ==
    LET q == a \div b
        r == a % b
    IN  IF 2 * r > b THEN q + 1
        ELSE IF 2 * r = b THEN q + (q % 2)
        ELSE q

\* the digits that the format .2f prints for f: the number printed is
\* h * 1024^shift hundredths.  A value of 1024 or more keeps its upper powers
\* of 1024 in shift (such a value is a whole number of hundredths in every
\* case explored).
Hundredths(f) ==
    IF f.e >= 1
    THEN LET g == Gcd(1024, f.d) IN
         [h |-> RoundHalfEven(100 * f.n * (1024 \div g), f.d \div g),
          shift |-> f.e - 1]
    ELSE [h |-> RoundHalfEven(100 * f.n, f.d * Pow1024(-f.e)), shift |-> 0]

\* human_bytes(f): the printed number and the unit
human_bytes(f) ==
    LET r == HumanScale(f, 0)
        p == Hundredths(r.f)
    IN  [hundredths |-> p.h, shift |-> p.shift, unit |-> sizes[r.i + 1]]

(* ----------------------------- sampling loop -------------------------- *)
\* the names in a list of names
Names(q) == {q[i] : i \in 1..Len(q)}

\* do_monitor, line 174 up to the first call of
\* detect_wifi_like_interfaces, and lines 175-178 when that settles iface
DoMonitorResolve ==
    /\ pc = "main" /\ sub = "monitor"
    /\ IF Truthy(args.iface)
       THEN /\ iface' = args.iface
            /\ pc' = "mon_init"
            /\ UNCHANGED <<enums, stderr, exitStatus>>
       ELSE /\ ListInterfaces
            /\ IF DetectWifiLike(nics) # <<>>
               THEN /\ pc' = "mon_resolve2"
                    /\ UNCHANGED <<iface, stderr, exitStatus>>
               ELSE /\ iface' = None
                    /\ FailStderr("No interfaces found.", 10)
    /\ UNCHANGED <<hb, sub, args, system, nics, idx, prev, cur, stdout, fault,
                   ran, reads, records>>

\* do_monitor, line 174: the second call of detect_wifi_like_interfaces,
\* whose result (the list) becomes iface; then lines 175-178
DoMonitorResolve2 ==
    /\ pc = "mon_resolve2"
    /\ ListInterfaces
    /\ iface' = List(DetectWifiLike(nics))
    /\ IF ~Truthy(iface')
       THEN FailStderr("No interfaces found.", 10)
       ELSE /\ pc' = "mon_init"
            /\ UNCHANGED <<stderr, exitStatus>>
    /\ UNCHANGED <<hb, sub, args, system, nics, idx, prev, cur, stdout, fault,
                   ran, reads, records>>

\* the outcome of get_iface_counters(iface) apart from the counter values:
\* `iface in counters` hashes iface, which a list does not allow
CountersOutcome(v, keys) ==
    IF v.kind = "list" THEN "TypeError"
    ELSE IF v.s \notin Names(keys) THEN "ValueError"
    ELSE "ok"

Snapshot(res, rx, tx) == [result |-> res, rx |-> rx, tx |-> tx]

\* monitor_interface, lines 48-60: the initial read and the header
MonitorInit ==
    /\ pc = "mon_init"
    /\ LET res == CountersOutcome(iface, nics) IN
       CASE res = "TypeError" ->
              /\ reads' = Append(reads, Snapshot(res, 0, 0))
              /\ Unhandled("TypeError")
              /\ UNCHANGED <<prev, stdout, stderr>>
         [] res = "ValueError" ->
              /\ reads' = Append(reads, Snapshot(res, 0, 0))
              /\ FailStderr("Interface not found. Available: ...", 2)
              /\ UNCHANGED <<prev, stdout, fault>>
         [] res = "ok" ->
              \E rx \in RxValues, tx \in TxValues :
                /\ reads' = Append(reads, Snapshot(res, rx, tx))
                /\ prev' = <<rx, tx>>
                /\ stdout' = Append(stdout, "header")
                /\ pc' = "sleep"
                /\ UNCHANGED <<stderr, exitStatus, fault>>
    /\ UNCHANGED <<hb, sub, args, system, nics, iface, idx, cur, ran, enums,
                   records>>

\* line 63: time.sleep(interval) returns
MonitorSleep ==
    /\ pc = "sleep"
    /\ Len(records) < MaxIter
    /\ pc' = "read"
    /\ UNCHANGED <<hb, sub, args, system, nics, iface, idx, prev, cur, stdout,
                   stderr, exitStatus, fault, ran, enums, reads, records>>

\* MonitorRead catching ValueError the way lines 50-52 do for the initial
\* read: message on stderr, exit status 2
MonitorReadCatches ==
    /\ pc = "read"
    /\ LET res == CountersOutcome(iface, nics) IN
       IF res # "ok"
       THEN /\ reads' = Append(reads, Snapshot(res, 0, 0))
            /\ FailStderr("Interface not found. Available: ...", 2)
            /\ UNCHANGED <<cur, fault>>
       ELSE \E rx \in RxValues, tx \in TxValues :
            /\ reads' = Append(reads, Snapshot(res, rx, tx))
            /\ cur' = <<rx, tx>>
            /\ pc' = "emit"
            /\ UNCHANGED <<exitStatus, fault, stderr>>
    /\ UNCHANGED <<hb, sub, args, system, nics, iface, idx, prev, stdout,
                   ran, enums, records>>

\* line 64: the read of the iteration; its ValueError is not caught
MonitorRead ==
    /\ pc = "read"
    /\ LET res == CountersOutcome(iface, nics) IN
       IF res # "ok"
       THEN /\ reads' = Append(reads, Snapshot(res, 0, 0))
            /\ Unhandled(res)
            /\ UNCHANGED cur
       ELSE \E rx \in RxValues, tx \in TxValues :
            /\ reads' = Append(reads, Snapshot(res, rx, tx))
            /\ cur' = <<rx, tx>>
            /\ pc' = "emit"
            /\ UNCHANGED <<exitStatus, fault>>
    /\ UNCHANGED <<hb, sub, args, system, nics, iface, idx, prev, stdout, stderr,
                   ran, enums, records>>

\* the line of line 71 (without the wall-clock elapsed time), with the
\* rates it formats
Record(rx, tx, down_s, up_s) ==
    [rx |-> human_bytes(Float(rx, 1, 0)), tx |-> human_bytes(Float(tx, 1, 0)),
     down |-> human_bytes(Float(down_s.n, down_s.d, 0)),
     up |-> human_bytes(Float(up_s.n, up_s.d, 0)),
     down_s |-> down_s, up_s |-> up_s]

\* Delta clamped at zero: a counter that went down counts as no traffic
DeltaClamped(c, p) ==
    <<IF c[1] < p[1] THEN 0 ELSE c[1] - p[1],
      IF c[2] < p[2] THEN 0 ELSE c[2] - p[2]>>

\* lines 65-67: the deltas against the previous snapshot
Delta(c, p) == <<c[1] - p[1], c[2] - p[2]>>

\* MonitorEmit without line 67: the previous snapshot is never replaced
MonitorEmitKeepsPrev ==
    /\ pc = "emit"
    /\ prev' = prev
    /\ LET d == Delta(cur, prev) IN
       IF args.interval = 0
       THEN /\ Unhandled("ZeroDivisionError")
            /\ UNCHANGED records
       ELSE /\ records' = Append(records,
                   Record(cur[1], cur[2], Frac(d[1], args.interval),
                          Frac(d[2], args.interval)))
            /\ pc' = "sleep"
            /\ UNCHANGED <<exitStatus, fault>>
    /\ UNCHANGED <<hb, sub, args, system, nics, iface, idx, cur, stdout, stderr,
                   ran, enums, reads>>

\* MonitorEmit with a baseline that never goes down: after a reset the
\* higher, older value stays the previous snapshot
MonitorEmitBaselineNeverLower ==
    /\ pc = "emit"
    /\ prev' = <<IF cur[1] < prev[1] THEN prev[1] ELSE cur[1],
                 IF cur[2] < prev[2] THEN prev[2] ELSE cur[2]>>
    /\ LET d == Delta(cur, prev) IN
       IF args.interval = 0
       THEN /\ Unhandled("ZeroDivisionError")
            /\ UNCHANGED records
       ELSE /\ records' = Append(records,
                   Record(cur[1], cur[2], Frac(d[1], args.interval),
                          Frac(d[2], args.interval)))
            /\ pc' = "sleep"
            /\ UNCHANGED <<exitStatus, fault>>
    /\ UNCHANGED <<hb, sub, args, system, nics, iface, idx, cur, stdout, stderr,
                   ran, enums, reads>>

\* lines 65-71: deltas, previous := current, rates, the record
MonitorEmit ==
    /\ pc = "emit"
    /\ prev' = cur
    /\ LET d == Delta(cur, prev) IN
       IF args.interval = 0
       THEN /\ Unhandled("ZeroDivisionError")
            /\ UNCHANGED records
       ELSE /\ records' = Append(records,
                   Record(cur[1], cur[2], Frac(d[1], args.interval),
                          Frac(d[2], args.interval)))
            /\ pc' = "sleep"
            /\ UNCHANGED <<exitStatus, fault>>
    /\ UNCHANGED <<hb, sub, args, system, nics, iface, idx, cur, stdout, stderr,
                   ran, enums, reads>>

\* the positions inside the try block of lines 61-71
InTry == pc \in {"sleep", "read", "emit"}

\* lines 72-73: KeyboardInterrupt raised inside the try block
KeyboardInterrupt ==
    /\ InTry
    /\ stdout' = Append(stdout, "Stopped.")
    /\ ReturnOk
    /\ UNCHANGED <<hb, sub, args, system, nics, iface, idx, prev, cur, stderr,
                   fault, ran, enums, reads, records>>

(* ------------------------------ environment --------------------------- *)
\* the positions whose next step calls psutil.net_io_counters
ReadsCounterSource ==
    pc \in {"main", "wifi_resolve", "wifi_resolve2", "mon_resolve2",
            "mon_init", "read"}

\* an interface appears or disappears, or the order of the keys changes,
\* while the process runs; a change is taken when the program is about to
\* look, which is when it can first be seen
NicsChange ==
    /\ ReadsCounterSource
    /\ nics' \in NicLists \ {nics}
    /\ UNCHANGED <<hb, sub, args, system, pc, iface, idx, prev, cur, stdout,
                   stderr, exitStatus, fault, ran, enums, reads, records>>

(* ----------------------------- specification -------------------------- *)
Next ==
    \/ Ifaces
    \/ DoMonitorResolve
    \/ DoMonitorResolve2
    \/ MonitorInit
    \/ MonitorSleep
    \/ MonitorRead
    \/ MonitorEmit
    \/ KeyboardInterrupt
    \/ WifiLinuxPrimary
    \/ WifiResolve
    \/ WifiResolve2
    \/ WifiLinuxFallback
    \/ WifiWindows
    \/ WifiDarwin
    \/ WifiUnsupported
    \/ MonmodeNotLinux
    \/ MonmodeDispatch
    \/ linux_monitor_mode_enable
    \/ linux_monitor_mode_disable
    \/ NicsChange

Spec == Init /\ [][Next]_vars

(* ---------------- the interface classifier on its own ----------------- *)
\* number of names in an input of the classifier
MaxNames == 3

s_Wlp2s0 == <<"W","l","p","2","s","0">>
s_EN1    == <<"E","N","1">>
s_en05   == <<"e","n","0","5">>
s_awl0   == <<"a","w","l","0">>
s_myWIFI == <<"m","y","W","I","F","I">>

\* names of every shape the patterns of line 42 tell apart
ClassifierPool == {s_wlan0, s_Wlp2s0, s_en0, s_EN1, s_en05, s_awl0, s_eth0,
                   s_WiFi, s_myWIFI}

\* the key lists given to the classifier: no name twice
ClassifierInputs ==
    UNION {{q \in [1..n -> ClassifierPool] :
                \A i, j \in 1..n : q[i] = q[j] => i = j}
           : n \in 0..MaxNames}

InitDetect ==
    /\ sub = "-"
    /\ args = [iface |-> None, state |-> "-", action |-> "-", interval |-> 1]
    /\ system = p_Linux
    /\ nics \in ClassifierInputs
    /\ pc = "detect_call"
    /\ iface = None
    /\ idx = 0
    /\ prev = <<0, 0>>
    /\ cur = <<0, 0>>
    /\ stdout = <<>>
    /\ stderr = <<>>
    /\ exitStatus = -1
    /\ fault = "none"
    /\ ran = <<>>
    /\ enums = <<>>
    /\ reads = <<>>
    /\ records = <<>>
    /\ hb = "-"

\* one call of detect_wifi_like_interfaces(), its result kept in iface
DetectCall ==
    /\ pc = "detect_call"
    /\ ListInterfaces
    /\ iface' = List(DetectWifiLike(nics))
    /\ pc' = "detect_done"
    /\ UNCHANGED <<hb, sub, args, system, nics, idx, prev, cur, stdout, stderr,
                   exitStatus, fault, ran, reads, records>>

NextDetect == DetectCall

SpecDetect == InitDetect /\ [][NextDetect]_vars

(* ------------------------ unit formatter on its own ------------------- *)
\* the largest power of 1024 that scales the byte counts explored
MaxPow == 5

\* leading parts m with 1 <= m < 1024, as <<numerator, denominator>>
Mantissas ==
    {<<1, 1>>, <<2, 1>>, <<3, 2>>, <<5, 4>>, <<100, 1>>, <<512, 1>>,
     <<1000, 1>>, <<1023, 1>>, <<1025, 1024>>, <<1048575, 1024>>}

\* the non-negative integers m * 1024^k explored, and 0 (as m = 0, k = 0)
HumanInputs ==
    {[m |-> <<0, 1>>, k |-> 0]} \cup
    {x \in [m : Mantissas, k : 0..MaxPow] : x.k = 0 => x.m[2] = 1}

InitHuman ==
    /\ sub = "-"
    /\ args = [iface |-> None, state |-> "-", action |-> "-", interval |-> 1]
    /\ system = p_Linux
    /\ nics = <<>>
    /\ pc = "hb_call"
    /\ iface = None
    /\ idx = 0
    /\ prev = <<0, 0>>
    /\ cur = <<0, 0>>
    /\ stdout = <<>>
    /\ stderr = <<>>
    /\ exitStatus = -1
    /\ fault = "none"
    /\ ran = <<>>
    /\ enums = <<>>
    /\ reads = <<>>
    /\ records = <<>>
    /\ \E x \in HumanInputs :
         hb = [m |-> x.m, k |-> x.k, n |-> Float(x.m[1], x.m[2], x.k)]

\* one call human_bytes(n): the state of the loop when it ends (value f and
\* index i) and the text returned
HumanCall ==
    /\ pc = "hb_call"
    /\ hb' = [m |-> hb.m, k |-> hb.k, n |-> hb.n,
              loop |-> HumanScale(hb.n, 0), text |-> human_bytes(hb.n)]
    /\ pc' = "hb_done"
    /\ UNCHANGED <<sub, args, system, nics, iface, idx, prev, cur, stdout,
                   stderr, exitStatus, fault, ran, enums, reads, records>>

NextHuman == HumanCall

SpecHuman == InitHuman /\ [][NextHuman]_vars

(* ------------------------- notions of the claims ---------------------- *)
\* the commands of the history whose program is prog
RanOf(prog) == {i \in 1..Len(ran) : ran[i].cmd.prog = prog}

\* some command of program prog returned a non-zero exit code
Failed(prog) == \E i \in RanOf(prog) : ran[i].rc # 0

\* the last list_interfaces() call returned no name
LastEnumEmpty == enums # <<>> /\ enums[Len(enums)] = <<>>

\* the wifi subcommand on Linux after its primary command failed
LinuxPrimaryFailed ==
    /\ sub = "wifi" /\ system = p_Linux
    /\ ran # <<>> /\ ran[1].cmd.prog = "nmcli radio wifi" /\ ran[1].rc # 0

(* ------------------------------- claims ------------------------------- *)
\* C1: in linux_monitor_mode_enable and linux_monitor_mode_disable, for
\* every combination of exit codes, a command that returns a non-zero exit
\* code is the last command passed to the command runner, and the process
\* has then exited with status 8 (enable) or 9 (disable).
C1_FirstFailureAborts ==
    sub = "monmode" =>
        \A i \in 1..Len(ran) :
            ran[i].rc # 0 =>
                /\ i = Len(ran)
                /\ pc = "done"
                /\ exitStatus = IF args.action = "enable" THEN 8 ELSE 9

\* the second of the three commands of disable failed
C1_Witness ==
    /\ sub = "monmode" /\ args.action = "disable"
    /\ Len(ran) = 2 /\ ran[1].rc = 0 /\ ran[2].rc # 0
    /\ ran[2].cmd.prog = "sudo iw dev set type"
    /\ exitStatus = 9

\* C2: in wifi_power on Linux, for either state and any interface hint,
\* when the primary nmcli command returns 0 the operation has printed its
\* success line and returned: no interface enumeration was made and no
\* further command (no ip link set) was passed to the command runner.
C2_PrimarySuccessStops ==
    (sub = "wifi" /\ system = p_Linux /\ ran # <<>> /\ ran[1].rc = 0) =>
        /\ ran = <<[cmd |-> Cmd("nmcli radio wifi", None, args.state),
                    rc |-> 0]>>
        /\ enums = <<>>
        /\ pc = "done" /\ exitStatus = 0 /\ fault = "none"
        /\ stdout = <<"Wi-Fi state">> /\ stderr = <<>>

\* wifi off --iface wlan0 on Linux, nmcli returned 0
C2_Witness ==
    /\ sub = "wifi" /\ system = p_Linux
    /\ args.state = "off" /\ args.iface = Str(s_wlan0)
    /\ ran # <<>> /\ ran[1].rc = 0
    /\ pc = "done"

\* C3: in wifi_power on Linux, when the primary command returned non-zero,
\* the target of the fallback link-state command is the hint when a hint
\* is given and otherwise a single interface name, the first element of
\* what the Interface Classifier returned for the enumerated interfaces;
\* and when that command returns 0 the operation succeeds.
C3_FallbackTargetIsFirstName ==
    LinuxPrimaryFailed =>
        \A i \in RanOf("sudo ip link set") :
            /\ IF Truthy(args.iface)
               THEN ran[i].cmd.target = args.iface
               ELSE /\ ran[i].cmd.target.kind = "str"
                    /\ ran[i].cmd.target.s =
                           DetectWifiLike(enums[Len(enums)])[1]
            /\ ran[i].rc = 0 => (pc = "done" /\ exitStatus = 0)

\* C4 as stated: exit status 3 exactly when the primary command failed, no
\* hint is given and the counter source enumerates no interface, and then
\* the link-state command was never passed to the command runner.
C4_AsStated ==
    pc = "done" =>
        /\ exitStatus = 3 <=>
              (LinuxPrimaryFailed /\ args.iface = None /\ LastEnumEmpty)
        /\ exitStatus = 3 => RanOf("sudo ip link set") = {}

\* C4 amended: exit status 3 exactly when the primary command failed, the
\* hint is absent or the empty string, and the enumeration the fallback
\* resolves from returned no interface; the link-state command was then
\* never passed to the command runner.
C4_NoInterfaceResolved ==
    pc = "done" =>
        /\ exitStatus = 3 <=>
              (LinuxPrimaryFailed /\ ~Truthy(args.iface) /\ LastEnumEmpty)
        /\ exitStatus = 3 => RanOf("sudo ip link set") = {}

\* exit 3 after the interfaces vanished between the two enumerations
C4_Witness ==
    /\ exitStatus = 3 /\ args.iface = None
    /\ Len(enums) = 2 /\ enums[1] # <<>> /\ enums[2] = <<>>
    /\ Len(ran) = 1

\* C5: for every wifi invocation the exit status tells the cause: 4
\* exactly when the Linux link-state command returned non-zero, 5 exactly
\* when netsh did, 6 exactly when networksetup did, 7 exactly when the
\* platform is none of Linux, Windows and macOS, 3 exactly when no Linux
\* fallback interface resolves, and 0 without a fault in every other case.
C5_ExitStatusTellsCause ==
    (sub = "wifi" /\ pc = "done") =>
        /\ exitStatus = 4 <=> Failed("sudo ip link set")
        /\ exitStatus = 5 <=> Failed("netsh interface set interface admin=")
        /\ exitStatus = 6 <=> Failed("networksetup -setairportpower")
        /\ exitStatus = 7 <=> system \notin {p_Linux, p_Windows, p_Darwin}
        /\ exitStatus = 3 <=>
              (LinuxPrimaryFailed /\ ~Truthy(args.iface) /\ LastEnumEmpty)
        /\ exitStatus \in {0, 3, 4, 5, 6, 7}
        /\ fault = "none"

\* wifi on macOS whose networksetup command failed
C5_Witness ==
    /\ sub = "wifi" /\ system = p_Darwin /\ pc = "done"
    /\ Failed("networksetup -setairportpower")
    /\ exitStatus = 6

\* C6: in the monitor subcommand with --iface omitted and at least one
\* interface enumerated, monitor_interface is started on exactly one
\* interface name chosen by the Interface Classifier, a key the counter
\* source returned, so that with an unchanged interface set the initial
\* counter read succeeds and sampling begins.
C6_AutoSelectedNameIsAKey ==
    (sub = "monitor" /\ args.iface = None /\ enums # <<>>
        /\ enums[Len(enums)] # <<>>) =>
        /\ pc = "mon_init" =>
              /\ iface.kind = "str"
              /\ iface.s \in Names(DetectWifiLike(enums[Len(enums)]))
        /\ (reads # <<>> /\ nics = enums[Len(enums)]) =>
              /\ reads[1].result = "ok"
              /\ pc # "done"

\* C7 as stated: the monitor subcommand exits with status 10 exactly when
\* --iface is omitted and the counter source enumerates no interface; no
\* counter read is then made and the loop is not entered; with --iface
\* given, exit 10 never occurs.
C7_AsStated ==
    (sub = "monitor" /\ pc = "done") =>
        /\ exitStatus = 10 <=> (args.iface = None /\ LastEnumEmpty)
        /\ exitStatus = 10 => (reads = <<>> /\ records = <<>> /\ stdout = <<>>)
        /\ args.iface # None => exitStatus # 10

\* C7 amended: the monitor subcommand exits with status 10 exactly when
\* --iface is omitted or the empty string and the enumeration iface is
\* taken from returned no interface; no counter read is then made and the
\* loop is not entered; with a non-empty --iface, exit 10 never occurs.
C7_NoInterfacesExit10 ==
    (sub = "monitor" /\ pc = "done") =>
        /\ exitStatus = 10 <=> (~Truthy(args.iface) /\ LastEnumEmpty)
        /\ exitStatus = 10 => (reads = <<>> /\ records = <<>> /\ stdout = <<>>)
        /\ Truthy(args.iface) => exitStatus # 10

\* monitor without --iface exited 10 on an empty enumeration
C7_Witness ==
    /\ sub = "monitor" /\ args.iface = None
    /\ pc = "done" /\ exitStatus = 10
    /\ enums = <<<<>>>> /\ reads = <<>>

\* C8: in monitor_interface, for every iteration k >= 1, the rates of the
\* k-th record are (rx_k - rx_(k-1)) / interval and (tx_k - tx_(k-1)) /
\* interval, snapshot 0 being the initial read and snapshot k-1 the read
\* of the iteration before (previous is replaced by current once per
\* iteration); previous (1000, 500), current (1500, 800), interval 1 give
\* 500 and 300.
C8_RatesAreDeltasOverInterval ==
    sub = "monitor" =>
        /\ records # <<>> => Len(records) < Len(reads)
        /\ \A k \in 1..Len(records) :
            /\ records[k].down_s.n * args.interval
                   = (reads[k + 1].rx - reads[k].rx) * records[k].down_s.d
            /\ records[k].up_s.n * args.interval
                   = (reads[k + 1].tx - reads[k].tx) * records[k].up_s.d
            /\ (args.interval = 1 /\ reads[k].rx = 1000 /\ reads[k].tx = 500
                  /\ reads[k + 1].rx = 1500 /\ reads[k + 1].tx = 800) =>
                  /\ records[k].down_s = [n |-> 500, d |-> 1]
                  /\ records[k].up_s = [n |-> 300, d |-> 1]
                  /\ records[k].down = [hundredths |-> 50000, shift |-> 0, unit |-> "B"]
                  /\ records[k].up = [hundredths |-> 30000, shift |-> 0, unit |-> "B"]
        /\ pc = "sleep" =>
              prev = <<reads[Len(reads)].rx, reads[Len(reads)].tx>>

\* the second iteration emitted the record of (1000, 500) -> (1500, 800)
\* at interval 1, after a first iteration that read other values
C8_Witness ==
    /\ sub = "monitor" /\ args.interval = 1
    /\ Len(records) = 2 /\ Len(reads) = 3
    /\ reads[1].rx = 1500
    /\ reads[2].rx = 1000 /\ reads[2].tx = 500
    /\ reads[3].rx = 1500 /\ reads[3].tx = 800
    /\ records[2].down_s = [n |-> 500, d |-> 1]
    /\ records[2].up_s = [n |-> 300, d |-> 1]

\* C9: when the interrupt arrives after the sampling loop has started, the
\* loop stops after the current iteration: every counter read taken inside
\* the loop has been followed by its record when the loop has stopped.
C9_StopsAfterCurrentIteration ==
    (sub = "monitor" /\ pc = "done" /\ fault = "none" /\ exitStatus = 0) =>
        /\ stdout[Len(stdout)] = "Stopped."
        /\ Len(records) = Len(reads) - 1

\* C10: every failure outcome (exit statuses 2 to 11) has its diagnostic
\* on the error stream and nothing for that failure on standard output,
\* and no command is passed to the command runner again after it returned
\* non-zero.
C10_FailuresGoToStderr ==
    /\ (pc = "done" /\ exitStatus \in 2..11) =>
          /\ Len(stderr) = 1
          /\ \A i \in 1..Len(stdout) : stdout[i] # "Failed to toggle Wi-Fi"
    /\ \A i, j \in 1..Len(ran) :
          (i < j /\ ran[i].rc # 0) => ran[j].cmd # ran[i].cmd


\* C11: in monitor_interface, an interface that is not enumerated at the
\* initial counter read ends the process with exit status 2 before any
\* header, record or sleep; an interface that is not enumerated at a later
\* read ends the run with the adapter's error as an unhandled fault:
\* neither exit status 2 nor the clean "Stopped." path, and no record for
\* that iteration.  Exit status 2 has no other cause.
C11_InterfaceNotFound ==
    sub = "monitor" =>
        /\ \A k \in 1..Len(reads) :
            reads[k].result = "ValueError" =>
                /\ k = Len(reads) /\ pc = "done"
                /\ iface.kind = "str" /\ iface.s \notin Names(nics)
                /\ IF k = 1
                   THEN /\ exitStatus = 2 /\ fault = "none"
                        /\ stdout = <<>> /\ records = <<>>
                        /\ stderr = <<"Interface not found. Available: ...">>
                   ELSE /\ fault = "ValueError"
                        /\ exitStatus \notin {0, 2}
                        /\ \A i \in 1..Len(stdout) : stdout[i] # "Stopped."
                        /\ Len(records) = k - 2
        /\ exitStatus = 2 =>
              (Len(reads) = 1 /\ reads[1].result = "ValueError")

\* the interface disappeared before the read of the second iteration
C11_Witness ==
    /\ sub = "monitor" /\ pc = "done"
    /\ Len(reads) = 3 /\ reads[3].result = "ValueError"
    /\ Len(records) = 1 /\ fault = "ValueError"

\* C12: the Monitor-Mode Controller passes its commands to the command
\* runner in the order ip link set <iface> down, iw dev <iface> set type
\* <monitor|managed>, ip link set <iface> up, each at most once and all
\* naming the same iface; it reports success exactly when all three were
\* run and all three returned 0.
C12_ThreeCommandsInOrder ==
    sub = "monmode" =>
        /\ Len(ran) <= 3
        /\ \A i \in 1..Len(ran) :
            /\ ran[i].cmd.target = args.iface
            /\ ran[i].cmd.prog =
                  <<"sudo ip link set", "sudo iw dev set type",
                    "sudo ip link set">>[i]
            /\ ran[i].cmd.arg =
                  <<"down",
                    IF args.action = "enable" THEN "monitor" ELSE "managed",
                    "up">>[i]
        /\ (pc = "done" /\ exitStatus = 0)
              <=> (Len(ran) = 3 /\ \A i \in 1..3 : ran[i].rc = 0)
        /\ stdout # <<>> <=> (pc = "done" /\ exitStatus = 0)

\* enable ran its three commands, all returning 0
C12_Witness ==
    /\ sub = "monmode" /\ args.action = "enable"
    /\ Len(ran) = 3 /\ \A i \in 1..3 : ran[i].rc = 0
    /\ ran[2].cmd.arg = "monitor"
    /\ pc = "done" /\ exitStatus = 0

\* C13: the monitor-mode subcommand on a platform other than Linux exits
\* with status 11 without passing any command to the command runner, for
\* enable and for disable; on Linux it never exits with status 11.
C13_NonLinuxExits11 ==
    sub = "monmode" =>
        /\ system # p_Linux => ran = <<>>
        /\ (pc = "done" /\ system # p_Linux) =>
              (exitStatus = 11 /\ stdout = <<>> /\ Len(stderr) = 1)
        /\ system = p_Linux => exitStatus # 11

\* monitor-mode disable on Windows exited 11
C13_Witness ==
    /\ sub = "monmode" /\ args.action = "disable" /\ system = p_Windows
    /\ pc = "done" /\ exitStatus = 11 /\ ran = <<>>

\* the command wifi_power passes on macOS and Windows for a given target
WifiCmdFor(target) ==
    IF system = p_Darwin
    THEN Cmd("networksetup -setairportpower", target,
             IF args.state = "on" THEN "on" ELSE "off")
    ELSE Cmd("netsh interface set interface admin=", target,
             IF args.state = "on" THEN "enable" ELSE "disable")

\* C14 as stated: in wifi_power on macOS and Windows exactly one command is
\* passed to the command runner; it targets the hint when one is given and
\* otherwise en0 (macOS) or Wi-Fi (Windows), with on/off or enable/disable
\* for the requested state; on another non-Linux platform no command is
\* run and the operation fails as UnsupportedPlatform.
C14_AsStated ==
    (sub = "wifi" /\ pc = "done") =>
        /\ system \in {p_Darwin, p_Windows} =>
              /\ Len(ran) = 1
              /\ ran[1].cmd = WifiCmdFor(
                    IF args.iface # None THEN args.iface
                    ELSE IF system = p_Darwin THEN Str(s_en0)
                    ELSE Str(s_WiFi))
        /\ system \notin {p_Linux, p_Darwin, p_Windows} =>
              (ran = <<>> /\ exitStatus = 7)

\* C14 amended: as stated, with the default also used when the hint is
\* the empty string: the target is the hint when a non-empty hint is
\* given, otherwise en0 (macOS) or Wi-Fi (Windows).
C14_OneCommandOnHintOrDefault ==
    (sub = "wifi" /\ pc = "done") =>
        /\ system \in {p_Darwin, p_Windows} =>
              /\ Len(ran) = 1
              /\ ran[1].cmd = WifiCmdFor(
                    IF Truthy(args.iface) THEN args.iface
                    ELSE IF system = p_Darwin THEN Str(s_en0)
                    ELSE Str(s_WiFi))
        /\ system \notin {p_Linux, p_Darwin, p_Windows} =>
              (ran = <<>> /\ exitStatus = 7)

\* wifi off --iface wlan0 on Windows ran netsh ... "wlan0" admin=disable
C14_Witness ==
    /\ sub = "wifi" /\ system = p_Windows /\ pc = "done"
    /\ args.state = "off" /\ args.iface = Str(s_wlan0)
    /\ Len(ran) = 1 /\ ran[1].cmd.target = Str(s_wlan0)
    /\ ran[1].cmd.arg = "disable"


\* the names of ClassifierPool that match a wireless pattern, classified
\* by hand: prefix wl or wlan, exactly en0 or en1, or containing wi-fi or
\* wifi, all without regard to case
WirelessByPattern == {s_wlan0, s_Wlp2s0, s_en0, s_EN1, s_WiFi, s_myWIFI}

MatchesPattern(n) == n \in WirelessByPattern

\* C15: for every sequence of names the counter source returns,
\* detect_wifi_like_interfaces returns the subsequence of the names that
\* match a wireless pattern, in the original order, when one matches, and
\* the whole sequence unchanged when none does; the result is empty only
\* when the input is empty.
C15_ClassifierSubsequenceOrAll ==
    pc = "detect_done" =>
        LET names == enums[1]
            matching == SelectSeq(names, MatchesPattern)
        IN  /\ iface.kind = "list"
            /\ iface.l = IF matching # <<>> THEN matching ELSE names
            /\ iface.l = <<>> <=> names = <<>>

\* a mixed input: the two matching names are kept in their order
C15_Witness ==
    /\ pc = "detect_done"
    /\ enums[1] = <<s_Wlp2s0, s_eth0, s_WiFi>>
    /\ iface.l = <<s_Wlp2s0, s_WiFi>>


\* C16: for every non-negative integer byte count n, human_bytes divides by
\* 1024 exactly min(4, k) times, where k is the largest integer with
\* 1024^k <= n (k = 0 for n < 1024), and selects the unit at that index of
\* B, KB, MB, GB, TB; the loop ends for every n; for n >= 1024^5 the unit
\* stays TB and the scaled value is at least 1024 (1024^5 gives 1024 TB).
\* Here n = m * 1024^k with 1 <= m < 1024, or n = 0.
Min(a, b) == IF a < b THEN a ELSE b

C16_DividesMin4Times ==
    /\ pc = "hb_call" => ENABLED HumanCall
    /\ pc = "hb_done" =>
         LET divisions == hb.loop.i
             scaled == hb.loop.f
         IN  /\ divisions = Min(4, hb.k)
             /\ hb.text.unit = <<"B", "KB", "MB", "GB", "TB">>[Min(4, hb.k) + 1]
             \* the scaled value is n / 1024^divisions = m * 1024^(k - divisions)
             /\ scaled.n * hb.m[2] = hb.m[1] * scaled.d
             /\ scaled.e = IF hb.m[1] = 0 THEN 0 ELSE hb.k - Min(4, hb.k)
             /\ hb.k >= 5 => /\ hb.text.unit = "TB"
                             /\ scaled.n > 0 /\ scaled.e >= 1
             /\ (hb.m = <<1, 1>> /\ hb.k = 5) =>
                  hb.text = [hundredths |-> 102400, shift |-> 0, unit |-> "TB"]
             /\ (hb.m = <<3, 2>> /\ hb.k = 1) =>
                  hb.text = [hundredths |-> 150, shift |-> 0, unit |-> "KB"]
             /\ (hb.m = <<0, 1>>) =>
                  hb.text = [hundredths |-> 0, shift |-> 0, unit |-> "B"]

\* the call on 1024^5 has returned, after four divisions, with unit TB
C16_Witness ==
    /\ pc = "hb_done"
    /\ hb.m = <<1, 1>> /\ hb.k = 5
    /\ hb.loop.i = 4
    /\ hb.text.unit = "TB"


\* C17: in monitor_interface every iteration sleeps once, then reads the
\* counters once, then emits one record; no record precedes the first
\* sleep, no two reads lack a sleep between them, and the loop ends only by
\* cancellation or by an error of the counter source.
LoopEntered == sub = "monitor" /\ stdout # <<>> /\ stdout[1] = "header"

C17_LoopOrderAndNoExit ==
    LoopEntered =>
        \* the reads are the initial one and one per iteration begun; a
        \* read waits for its record only between lines 64 and 71
        /\ pc \in {"sleep", "read"} => Len(reads) = Len(records) + 1
        /\ pc = "emit" => Len(reads) = Len(records) + 2
        /\ Len(records) < Len(reads)
        /\ pc = "done" =>
             \/ stdout[Len(stdout)] = "Stopped."
             \/ reads[Len(reads)].result # "ok"


\* C18: when a counter read returns a value lower than the previous
\* snapshot, nothing is clamped: the rate of that iteration is negative and
\* equals (current - previous) / interval, and the lower snapshot is the
\* baseline of the following iteration's delta.
C18_ResetGivesNegativeRate ==
    /\ \A k \in 1..Len(records) :
         LET p == reads[k]
             c == reads[k + 1]
         IN  /\ c.rx < p.rx =>
                  /\ records[k].down_s = Frac(c.rx - p.rx, args.interval)
                  /\ records[k].down_s.n < 0
                  /\ records[k].down.hundredths < 0
                  /\ k < Len(records) =>
                       records[k + 1].down_s =
                           Frac(reads[k + 2].rx - c.rx, args.interval)
             /\ c.tx < p.tx =>
                  /\ records[k].up_s = Frac(c.tx - p.tx, args.interval)
                  /\ records[k].up_s.n < 0
                  /\ records[k].up.hundredths < 0
                  /\ k < Len(records) =>
                       records[k + 1].up_s =
                           Frac(reads[k + 2].tx - c.tx, args.interval)
    /\ (records # <<>> /\ pc \in {"sleep", "read", "emit"}) =>
         LET b == reads[Len(records) + 1] IN prev = <<b.rx, b.tx>>

\* both counters fell in the first iteration and rose in the second, whose
\* delta is taken from the lower snapshot
C18_Witness ==
    /\ sub = "monitor" /\ args.interval = 2
    /\ Len(records) = 2 /\ Len(reads) = 3
    /\ reads[1].rx = 1500 /\ reads[1].tx = 800
    /\ reads[2].rx = 1000 /\ reads[2].tx = 500
    /\ reads[3].rx = 1500 /\ reads[3].tx = 800
    /\ records[1].down_s = [n |-> -250, d |-> 1]
    /\ records[1].up_s = [n |-> -150, d |-> 1]
    /\ records[2].down_s = [n |-> 250, d |-> 1]
    /\ prev = <<1500, 800>>

\* C19: after any number n of completed iterations, the received deltas
\* behind the emitted rates add up to the cumulative received count that
\* the n-th record shows minus the received count of the initial snapshot,
\* and likewise for sent bytes, resets included.
\* the delta behind a rate: rate * interval
DeltaOf(rate) == (rate.n * args.interval) \div rate.d

RECURSIVE SumDown(_)
SumDown(n) == IF n = 0 THEN 0 ELSE SumDown(n - 1) + DeltaOf(records[n].down_s)

RECURSIVE SumUp(_)
SumUp(n) == IF n = 0 THEN 0 ELSE SumUp(n - 1) + DeltaOf(records[n].up_s)

C19_DeltasTelescope ==
    \A n \in 1..Len(records) :
        /\ records[n].rx = human_bytes(Float(reads[n + 1].rx, 1, 0))
        /\ records[n].tx = human_bytes(Float(reads[n + 1].tx, 1, 0))
        /\ (records[n].down_s.n * args.interval) % records[n].down_s.d = 0
        /\ (records[n].up_s.n * args.interval) % records[n].up_s.d = 0
        /\ SumDown(n) = reads[n + 1].rx - reads[1].rx
        /\ SumUp(n) = reads[n + 1].tx - reads[1].tx

\* two iterations completed, the first one over a reset of the received
\* counter: the deltas -500 and +500 add up to 0
C19_Witness ==
    /\ sub = "monitor" /\ args.interval = 1
    /\ Len(records) = 2
    /\ reads[1].rx = 1500 /\ reads[2].rx = 1000 /\ reads[3].rx = 1500
    /\ reads[1].tx = 500 /\ reads[2].tx = 800 /\ reads[3].tx = 800
    /\ SumDown(2) = 0 /\ SumUp(2) = 300
    /\ DeltaOf(records[1].down_s) = -500

\* C20: the command-runner calls are issued one after another; one
\* invocation passes at most 2 commands for wifi on Linux (the primary, then
\* the fallback), exactly 1 for wifi on macOS and Windows, at most 3 for
\* monitor-mode, and none for ifaces and monitor; every command that is
\* followed by another returned 0 or is the failed Linux primary.
C20_CommandCounts ==
    /\ (sub = "wifi" /\ IsLinux) =>
          /\ Len(ran) <= 2
          /\ Len(ran) >= 1 => ran[1].cmd.prog = "nmcli radio wifi"
          /\ Len(ran) = 2 => ran[2].cmd.prog = "sudo ip link set"
    /\ (sub = "wifi" /\ ~IsLinux /\ (IsWindows \/ IsDarwin)) =>
          /\ Len(ran) <= 1
          /\ pc = "done" => Len(ran) = 1
    /\ sub = "monmode" => Len(ran) <= 3
    /\ sub \in {"ifaces", "monitor"} => Len(ran) = 0
    /\ \A i \in 1..(Len(ran) - 1) :
          \/ ran[i].rc = 0
          \/ /\ sub = "wifi" /\ IsLinux /\ i = 1
             /\ ran[i].cmd.prog = "nmcli radio wifi"

C20_CommandsInTurn == Len(ran') = Len(ran) \/ ran' = Append(ran, ran'[Len(ran')])

C20_BoundedCommands == [](C20_CommandCounts) /\ [][C20_CommandsInTurn]_vars

\* wifi on Linux ran its two commands: the failed primary, then the fallback
C20_Witness ==
    /\ sub = "wifi" /\ IsLinux
    /\ Len(ran) = 2
    /\ ran[1].rc # 0
    /\ ran[1].cmd.prog = "nmcli radio wifi"
    /\ ran[2].cmd.prog = "sudo ip link set"
    /\ pc = "done"

====
